---- MODULE Spec2Model ----
(***************************************************************************)
(* Model of src/index.ts: createVercelClient and its five operations       *)
(* (addSubdomain, removeSubdomain, addCustomDomain, removeCustomDomain,    *)
(* getDomainConfig), which all go through the request helper.              *)
(*                                                                         *)
(* Text.  A JavaScript string is a sequence of tokens.  Every character    *)
(* that is not a letter, a digit or an underscore ({ } [ ] : , " \ . / -   *)
(* and the space among them) is a token of its own; every other token is   *)
(* a word, a maximal run of letters, digits and underscores.  Equal        *)
(* strings are equal sequences.  The empty string is <<>>.  Template       *)
(* literals are concatenation, String.prototype.includes is a search for   *)
(* a contiguous subsequence.                                               *)
(***************************************************************************)
EXTENDS Integers, Sequences, FiniteSets, TLC

QUOTE == "\""
BSLASH == "\\"
SPACE == " "

(***************************************************************************)
(* JavaScript values as they come out of JSON.parse.  Every value is a     *)
(* record [t, v] whose v is a sequence: the tokens of a string, the one    *)
(* word of a literal (null, true, false, a number), the elements of an     *)
(* array, the members [k, val] of an object in insertion order.            *)
(***************************************************************************)
Undefined == [t |-> "undefined", v |-> <<>>]
Lit(w) == [t |-> "lit", v |-> <<w>>]
Str(s) == [t |-> "str", v |-> s]
Arr(xs) == [t |-> "arr", v |-> xs]
Obj(ms) == [t |-> "obj", v |-> ms]
Member(k, val) == [k |-> k, val |-> val]
Null == Lit("null")
EmptyObject == Obj(<<>>)

\* The words JSON.parse reads as a number; with null, true and false they are
\* the words that are a JSON value by themselves.
NumberWords == {"1", "42"}
LiteralWords == {"null", "true", "false"} \cup NumberWords

\* Setting a key of an object under construction: a repeated key keeps its
\* place and takes the later value.
PutMember(ms, k, val) ==
  IF \E i \in 1..Len(ms) : ms[i].k = k
  THEN [i \in 1..Len(ms) |-> IF ms[i].k = k THEN Member(k, val) ELSE ms[i]]
  ELSE Append(ms, Member(k, val))

ParseFail == [ok |-> FALSE, val |-> Undefined, next |-> 0]
ParseOk(val, next) == [ok |-> TRUE, val |-> val, next |-> next]

RECURSIVE SkipWs(_, _)
SkipWs(s, i) ==
  IF i <= Len(s) /\ s[i] = SPACE THEN SkipWs(s, i + 1) ELSE i

\* The inside of a string literal from position i: up to the closing quote,
\* a backslash taking the quote or backslash after it as a character.
RECURSIVE ScanString(_, _, _)
ScanString(s, i, acc) ==
  IF i > Len(s) THEN ParseFail
  ELSE IF s[i] = QUOTE THEN ParseOk(Str(acc), i + 1)
  ELSE IF s[i] = BSLASH
       THEN IF i + 1 <= Len(s) /\ s[i + 1] \in {QUOTE, BSLASH}
            THEN ScanString(s, i + 2, Append(acc, s[i + 1]))
            ELSE ParseFail
       ELSE ScanString(s, i + 1, Append(acc, s[i]))

RECURSIVE ParseValue(_, _)
RECURSIVE ParseMembers(_, _, _)
RECURSIVE ParseElements(_, _, _)

ParseValue(s, i0) ==
  LET i == SkipWs(s, i0) IN
  IF i > Len(s) THEN ParseFail
  ELSE IF s[i] = "{" THEN ParseMembers(s, SkipWs(s, i + 1), <<>>)
  ELSE IF s[i] = "[" THEN ParseElements(s, SkipWs(s, i + 1), <<>>)
  ELSE IF s[i] = QUOTE THEN ScanString(s, i + 1, <<>>)
  ELSE IF s[i] \in LiteralWords THEN ParseOk(Lit(s[i]), i + 1)
  ELSE ParseFail

\* i is the first non-space position after "{" (acc empty) or after ",".
ParseMembers(s, i, acc) ==
  IF i > Len(s) THEN ParseFail
  ELSE IF s[i] = "}"
       THEN IF acc = <<>> THEN ParseOk(Obj(acc), i + 1) ELSE ParseFail
  ELSE IF s[i] # QUOTE THEN ParseFail
  ELSE LET key == ScanString(s, i + 1, <<>>) IN
       IF ~key.ok THEN ParseFail
       ELSE LET j == SkipWs(s, key.next) IN
            IF j > Len(s) \/ s[j] # ":" THEN ParseFail
            ELSE LET val == ParseValue(s, j + 1) IN
                 IF ~val.ok THEN ParseFail
                 ELSE LET k == SkipWs(s, val.next)
                          acc2 == PutMember(acc, key.val.v, val.val)
                      IN  IF k > Len(s) THEN ParseFail
                          ELSE IF s[k] = "}" THEN ParseOk(Obj(acc2), k + 1)
                          ELSE IF s[k] = ","
                               THEN ParseMembers(s, SkipWs(s, k + 1), acc2)
                          ELSE ParseFail

\* i is the first non-space position after "[" (acc empty) or after ",".
ParseElements(s, i, acc) ==
  IF i > Len(s) THEN ParseFail
  ELSE IF s[i] = "]"
       THEN IF acc = <<>> THEN ParseOk(Arr(acc), i + 1) ELSE ParseFail
  ELSE LET val == ParseValue(s, i) IN
       IF ~val.ok THEN ParseFail
       ELSE LET k == SkipWs(s, val.next)
                acc2 == Append(acc, val.val)
            IN  IF k > Len(s) THEN ParseFail
                ELSE IF s[k] = "]" THEN ParseOk(Arr(acc2), k + 1)
                ELSE IF s[k] = ","
                     THEN ParseElements(s, SkipWs(s, k + 1), acc2)
                ELSE ParseFail

\* JSON.parse: the value of the whole text, or a failure (a SyntaxError) when
\* the text is no JSON value or something other than spaces follows it.
JSONparse(s) ==
  LET r == ParseValue(s, 1) IN
  IF r.ok /\ SkipWs(s, r.next) > Len(s)
  THEN [ok |-> TRUE, val |-> r.val]
  ELSE [ok |-> FALSE, val |-> Undefined]

RECURSIVE Escape(_)
Escape(s) ==
  IF s = <<>> THEN <<>>
  ELSE (IF Head(s) \in {QUOTE, BSLASH} THEN <<BSLASH, Head(s)>> ELSE <<Head(s)>>)
       \o Escape(Tail(s))

Quoted(s) == <<QUOTE>> \o Escape(s) \o <<QUOTE>>

\* JSON.stringify with no indent: no space anywhere outside a string.
RECURSIVE JSONstringify(_)
RECURSIVE StringifyMembers(_, _)
RECURSIVE StringifyElements(_, _)

JSONstringify(x) ==
  IF x.t = "obj" THEN <<"{">> \o StringifyMembers(x.v, 1) \o <<"}">>
  ELSE IF x.t = "arr" THEN <<"[">> \o StringifyElements(x.v, 1) \o <<"]">>
  ELSE IF x.t = "str" THEN Quoted(x.v)
  ELSE IF x.t = "lit" THEN x.v
  ELSE <<"undefined">>

StringifyMembers(ms, i) ==
  IF i > Len(ms) THEN <<>>
  ELSE (IF i > 1 THEN <<",">> ELSE <<>>)
       \o Quoted(ms[i].k) \o <<":">> \o JSONstringify(ms[i].val)
       \o StringifyMembers(ms, i + 1)

StringifyElements(xs, i) ==
  IF i > Len(xs) THEN <<>>
  ELSE (IF i > 1 THEN <<",">> ELSE <<>>)
       \o JSONstringify(xs[i]) \o StringifyElements(xs, i + 1)

\* String.prototype.includes
Includes(hay, needle) ==
  \E i \in 0..(Len(hay) - Len(needle)) :
    SubSeq(hay, i + 1, i + Len(needle)) = needle

\* Array.prototype.join
RECURSIVE Join(_, _)
Join(xs, sep) ==
  IF xs = <<>> THEN <<>>
  ELSE IF Len(xs) = 1 THEN <<xs[1]>>
  ELSE <<xs[1]>> \o sep \o Join(Tail(xs), sep)

\* Words separated by single spaces.
Words(ws) == Join(ws, <<SPACE>>)

(***************************************************************************)
(* State.  config is the configuration captured by createVercelClient.     *)
(* calls[c] is invocation c of a public operation: where it stands (pc),   *)
(* its arguments and locals, and what its promise settled to (outcome).    *)
(* net[c] is the network's side of invocation c: the fetch calls it        *)
(* issued, and what the upstream answered.                                 *)
(***************************************************************************)
VARIABLES config, calls, net

vars == <<config, calls, net>>

Ops == {"addSubdomain", "removeSubdomain", "addCustomDomain",
        "removeCustomDomain", "getDomainConfig"}

\* ---------------------------------------------------------------- errors
Error(message) == [isError |-> TRUE, message |-> message]

\* What the platform throws: fetch's rejection, a body stream that breaks,
\* JSON.parse's SyntaxError, a property read of null.  The texts are the
\* engine's; none of them quotes the response.
FetchFailed == Error(Words(<<"fetch", "failed">>))
BodyFailed == Error(<<"terminated">>)
SyntaxError == Error(Words(<<"Unexpected", "token", "in", "JSON">>))
NullPropertyError == Error(Words(<<"Cannot", "read", "properties", "of", "null">>))

Thrown(e) == [threw |-> TRUE, error |-> e, value |-> Undefined]
Returned(v) == [threw |-> FALSE, error |-> Error(<<>>), value |-> v]

\* error instanceof Error ? error.message : "Unknown error"
ErrorMessage(e) == IF e.isError THEN e.message ELSE Words(<<"Unknown", "error">>)

\* ------------------------------------------------- missingConfigError
IsMissing(key) ==
  CASE key = "bearerToken" -> config.bearerToken = <<>>
    [] key = "projectId" -> config.projectId = <<>>
    [] key = "baseDomain" -> config.baseDomain = <<>>
    [] OTHER -> FALSE

missingConfigErrorFirstOnly(keys) ==
  LET missing == SelectSeq(keys, IsMissing) IN
  IF Len(missing) > 0
  THEN [null |-> FALSE,
        s |-> Words(<<"Vercel", "configuration", "is", "incomplete">>)
              \o <<":", SPACE, "missing", SPACE>> \o <<missing[1]>>]
  ELSE [null |-> TRUE, s |-> <<>>]

missingConfigError(keys) ==
  LET missing == SelectSeq(keys, IsMissing) IN
  IF Len(missing) > 0
  THEN [null |-> FALSE,
        s |-> Words(<<"Vercel", "configuration", "is", "incomplete">>)
              \o <<":", SPACE, "missing", SPACE>>
              \o Join(missing, <<",", SPACE>>)]
  ELSE [null |-> TRUE, s |-> <<>>]

\* if (configError): null and the empty string are falsy.
Truthy(str) == ~str.null /\ str.s # <<>>

\* ------------------------------------------------------------ request
\* The arguments of the one fetch call of request(path, options).
FetchInitAlwaysJson(options) ==
  LET method == IF "method" \in DOMAIN options THEN options.method ELSE <<"GET">>
      headers == ("Authorization" :> (<<"Bearer", SPACE>> \o config.bearerToken))
                 @@ ("Content-Type" :> <<"application", "/", "json">>)
  IN  IF "body" \in DOMAIN options
      THEN [method |-> method, headers |-> headers,
            body |-> JSONstringify(options.body)]
      ELSE [method |-> method, headers |-> headers]

FetchInit(options) ==
  LET method == IF "method" \in DOMAIN options THEN options.method ELSE <<"GET">>
      auth == "Authorization" :> (<<"Bearer", SPACE>> \o config.bearerToken)
  IN  IF "body" \in DOMAIN options
      THEN [method |-> method,
            headers |-> auth @@ ("Content-Type" :> <<"application", "/", "json">>),
            body |-> JSONstringify(options.body)]
      ELSE [method |-> method, headers |-> auth]

FetchCall(path, options) ==
  [url |-> config.baseUrl \o path, init |-> FetchInit(options)]

AllowStatuses(options) ==
  IF "allowStatuses" \in DOMAIN options THEN options.allowStatuses ELSE {}

\* response.ok
ResponseOk(status) == status \in 200..299

StatusText(status) == ToString(status)

\* request() from the body text on: parse, then the status check.
requestFinishParseAlways(status, raw, allowStatuses) ==
  LET parsed == JSONparse(raw) IN
  IF ~parsed.ok THEN Thrown(SyntaxError)
  ELSE IF ~ResponseOk(status) /\ status \notin allowStatuses
       THEN Thrown(Error(Words(<<"Vercel", "API", "error">>)
                         \o <<":", SPACE, StatusText(status), SPACE, "-", SPACE>>
                         \o JSONstringify(parsed.val)))
       ELSE Returned(parsed.val)

requestFinishNoStatus(status, raw, allowStatuses) ==
  LET parsed == IF raw # <<>> THEN JSONparse(raw)
                ELSE [ok |-> TRUE, val |-> EmptyObject]
  IN  IF ~parsed.ok THEN Thrown(SyntaxError)
      ELSE IF ~ResponseOk(status) /\ status \notin allowStatuses
           THEN Thrown(Error(Words(<<"Vercel", "API", "error">>)
                             \o <<":", SPACE>> \o JSONstringify(parsed.val)))
           ELSE Returned(parsed.val)

requestFinish(status, raw, allowStatuses) ==
  LET parsed == IF raw # <<>> THEN JSONparse(raw)
                ELSE [ok |-> TRUE, val |-> EmptyObject]
  IN  IF ~parsed.ok THEN Thrown(SyntaxError)
      ELSE IF ~ResponseOk(status) /\ status \notin allowStatuses
           THEN Thrown(Error(Words(<<"Vercel", "API", "error">>)
                             \o <<":", SPACE, StatusText(status), SPACE, "-", SPACE>>
                             \o JSONstringify(parsed.val)))
           ELSE Returned(parsed.val)

\* x.key for a value x that is not null (a read of null throws).
GetProperty(x, key) ==
  IF x.t = "obj" /\ \E i \in 1..Len(x.v) : x.v[i].k = key
  THEN x.v[CHOOSE i \in 1..Len(x.v) : x.v[i].k = key].val
  ELSE Undefined

\* ------------------------------------------------- the five operations
\* An operation runs in two parts, split at its one await.  The first part
\* (XStart) ends either with the operation's return (the configuration is
\* incomplete) or with a call of request; the second (XSettle) is the rest
\* of the try block and the catch, given how request settled.
Finished(result) ==
  [ret |-> TRUE, result |-> result, fullDomain |-> <<>>, path |-> <<>>,
   options |-> [method |-> <<"GET">>]]
Requesting(fullDomain, path, options) ==
  [ret |-> FALSE, result |-> [success |-> FALSE], fullDomain |-> fullDomain,
   path |-> path, options |-> options]

ReturnOf(result) == [kind |-> "return", result |-> result]
ThrowOf(e) == [kind |-> "throw", error |-> e]
NoOutcome == [kind |-> "none"]

ProjectDomains(version) ==
  <<"/", version, "/", "projects", "/">> \o config.projectId \o <<"/", "domains">>

addSubdomainStart(subdomain) ==
  LET configError == missingConfigError(<<"baseDomain", "projectId", "bearerToken">>)
      fullDomain == subdomain \o <<".">> \o config.baseDomain
  IN  IF Truthy(configError)
      THEN Finished([success |-> FALSE, error |-> configError.s])
      ELSE Requesting(fullDomain, ProjectDomains("v10"),
                      [method |-> <<"POST">>,
                       body |-> Obj(<<Member(<<"name">>, Str(fullDomain))>>)])

addSubdomainSettleNoDomain(fullDomain, r) ==
  LET tried == IF r.threw THEN r
               ELSE IF r.value = Null THEN Thrown(NullPropertyError)
               ELSE LET name == GetProperty(r.value, <<"name">>) IN
                    Returned([success |-> TRUE,
                              domain |-> IF name.t = "str" THEN name.v ELSE fullDomain])
  IN  IF tried.threw
      THEN ReturnOf([success |-> FALSE, error |-> ErrorMessage(tried.error)])
      ELSE ReturnOf(tried.value)

addSubdomainSettle(fullDomain, r) ==
  LET tried == IF r.threw THEN r
               ELSE IF r.value = Null THEN Thrown(NullPropertyError)
               ELSE LET name == GetProperty(r.value, <<"name">>) IN
                    Returned([success |-> TRUE,
                              domain |-> IF name.t = "str" THEN name.v ELSE fullDomain])
  IN  IF tried.threw
      THEN ReturnOf([success |-> FALSE, domain |-> fullDomain,
                     error |-> ErrorMessage(tried.error)])
      ELSE ReturnOf(tried.value)

removeSubdomainStart(subdomain) ==
  LET configError == missingConfigError(<<"baseDomain", "projectId", "bearerToken">>)
      fullDomain == subdomain \o <<".">> \o config.baseDomain
  IN  IF Truthy(configError)
      THEN Finished([success |-> FALSE, error |-> configError.s])
      ELSE Requesting(fullDomain, ProjectDomains("v9") \o <<"/">> \o fullDomain,
                      [method |-> <<"DELETE">>])

removeSubdomainSettle(r) ==
  IF r.threw
  THEN ReturnOf([success |-> FALSE, error |-> ErrorMessage(r.error)])
  ELSE ReturnOf([success |-> TRUE])

DomainInUseMarker ==
  <<QUOTE, "code", QUOTE, ":", QUOTE, "domain_already_in_use", QUOTE>>
DomainInUseMessage ==
  Words(<<"This", "domain", "is", "already", "in", "use", "by", "another",
          "Vercel", "project">>)

addCustomDomainStart(domain) ==
  LET configError == missingConfigError(<<"projectId", "bearerToken">>) IN
  IF Truthy(configError)
  THEN Finished([success |-> FALSE, error |-> configError.s])
  ELSE Requesting(<<>>, ProjectDomains("v10"),
                  [method |-> <<"POST">>,
                   body |-> Obj(<<Member(<<"name">>, Str(domain))>>)])

addCustomDomainSettle(domain, r) ==
  LET tried == IF r.threw THEN r
               ELSE IF r.value = Null THEN Thrown(NullPropertyError)
               ELSE LET name == GetProperty(r.value, <<"name">>) IN
                    Returned([success |-> TRUE,
                              domain |-> IF name.t = "str" THEN name.v ELSE domain])
  IN  IF tried.threw
      THEN LET errorMessage == ErrorMessage(tried.error) IN
           IF Includes(errorMessage, DomainInUseMarker)
           THEN ReturnOf([success |-> FALSE, domain |-> domain,
                          error |-> DomainInUseMessage])
           ELSE ReturnOf([success |-> FALSE, domain |-> domain,
                          error |-> errorMessage])
      ELSE ReturnOf(tried.value)

removeCustomDomainStartNoAllow(domain) ==
  LET configError == missingConfigError(<<"projectId", "bearerToken">>) IN
  IF Truthy(configError)
  THEN Finished([success |-> FALSE, error |-> configError.s])
  ELSE Requesting(<<>>, ProjectDomains("v9") \o <<"/">> \o domain,
                  [method |-> <<"DELETE">>])

removeCustomDomainStart(domain) ==
  LET configError == missingConfigError(<<"projectId", "bearerToken">>) IN
  IF Truthy(configError)
  THEN Finished([success |-> FALSE, error |-> configError.s])
  ELSE Requesting(<<>>, ProjectDomains("v9") \o <<"/">> \o domain,
                  [method |-> <<"DELETE">>, allowStatuses |-> {404}])

removeCustomDomainSettle(r) ==
  IF r.threw
  THEN ReturnOf([success |-> FALSE, error |-> ErrorMessage(r.error)])
  ELSE ReturnOf([success |-> TRUE])

\* The fields getDomainConfig copies, in the order of its if statements.
ConfigFields ==
  <<"configuredBy", "nameservers", "serviceType", "cnames", "aValues",
    "conflicts", "acceptedChallenges", "recommendedIPv4", "recommendedCNAME",
    "ipStatus", "misconfigured">>

getDomainConfigStart(domain) ==
  LET configError == missingConfigError(<<"bearerToken">>) IN
  IF Truthy(configError)
  THEN Finished([success |-> FALSE, error |-> configError.s])
  ELSE Requesting(<<>>, <<"/", "v6", "/", "domains", "/">> \o domain \o <<"/", "config">>,
                  [method |-> <<"GET">>])

\* if (responseData.f !== undefined) result.f = responseData.f, field by field.
RECURSIVE CopyFields(_, _, _)
CopyFields(responseData, result, i) ==
  IF i > Len(ConfigFields) THEN result
  ELSE LET f == ConfigFields[i]
           x == GetProperty(responseData, <<f>>)
       IN  CopyFields(responseData,
                      IF x # Undefined THEN (f :> x) @@ result ELSE result,
                      i + 1)

RECURSIVE CopyFieldsIfTruthy(_, _, _)
CopyFieldsIfTruthy(responseData, result, i) ==
  IF i > Len(ConfigFields) THEN result
  ELSE LET f == ConfigFields[i]
           x == GetProperty(responseData, <<f>>)
       IN  CopyFieldsIfTruthy(responseData,
                      IF x \notin {Undefined, Null, Lit("false")}
                      THEN (f :> x) @@ result ELSE result,
                      i + 1)

getDomainConfigSettleIfTruthy(r) ==
  LET tried == IF r.threw THEN r
               ELSE IF r.value = Null THEN Thrown(NullPropertyError)
               ELSE Returned(CopyFieldsIfTruthy(r.value, [success |-> TRUE], 1))
  IN  IF tried.threw
      THEN ReturnOf([success |-> FALSE, error |-> ErrorMessage(tried.error)])
      ELSE ReturnOf(tried.value)

getDomainConfigSettleNoCatch(r) ==
  IF r.threw THEN ThrowOf(r.error)
  ELSE IF r.value = Null THEN ThrowOf(NullPropertyError)
  ELSE ReturnOf(CopyFields(r.value, [success |-> TRUE], 1))

getDomainConfigSettle(r) ==
  LET tried == IF r.threw THEN r
               ELSE IF r.value = Null THEN Thrown(NullPropertyError)
               ELSE Returned(CopyFields(r.value, [success |-> TRUE], 1))
  IN  IF tried.threw
      THEN ReturnOf([success |-> FALSE, error |-> ErrorMessage(tried.error)])
      ELSE ReturnOf(tried.value)

\* The operation's first part and second part, by name.
Start(op, arg) ==
  CASE op = "addSubdomain" -> addSubdomainStart(arg)
    [] op = "removeSubdomain" -> removeSubdomainStart(arg)
    [] op = "addCustomDomain" -> addCustomDomainStart(arg)
    [] op = "removeCustomDomain" -> removeCustomDomainStart(arg)
    [] op = "getDomainConfig" -> getDomainConfigStart(arg)

Settle(op, arg, fullDomain, r) ==
  CASE op = "addSubdomain" -> addSubdomainSettle(fullDomain, r)
    [] op = "removeSubdomain" -> removeSubdomainSettle(r)
    [] op = "addCustomDomain" -> addCustomDomainSettle(arg, r)
    [] op = "removeCustomDomain" -> removeCustomDomainSettle(r)
    [] op = "getDomainConfig" -> getDomainConfigSettle(r)

\* --------------------------------------------------- the caller's inputs
ApiBase == <<"https", ":", "/", "/", "api", ".", "vercel", ".", "com">>
ExampleCom == <<"example", ".", "com">>

\* Every configuration with each field the operations check empty or set.
Configs ==
  [baseUrl : {ApiBase}, bearerToken : {<<>>, <<"token">>},
   projectId : {<<>>, <<"project_123">>}, baseDomain : {<<>>, ExampleCom}]

CompleteConfig ==
  [baseUrl |-> ApiBase, bearerToken |-> <<"token">>,
   projectId |-> <<"project_123">>, baseDomain |-> ExampleCom]

\* The subdomain or domain the caller passes.
Args == {<<"staging">>, <<"missing", ".", "com">>}

\* ------------------------------------------------ the upstream's answers
Statuses == {200, 299, 300, 400, 404}

CnameTarget == <<"cname", ".", "vercel", "-", "dns", ".", "com">>
Ipv4 == <<"76", ".", "76", ".", "21", ".", "21">>

FieldSample(f) ==
  CASE f = "configuredBy" -> Null
    [] f = "nameservers" -> Arr(<<>>)
    [] f = "serviceType" -> Str(<<"external">>)
    [] f = "cnames" -> Arr(<<Str(CnameTarget)>>)
    [] f = "aValues" -> Arr(<<Str(Ipv4)>>)
    [] f = "conflicts" -> Arr(<<>>)
    [] f = "acceptedChallenges" ->
         Arr(<<Str(<<"dns", "-", "01">>), Str(<<"http", "-", "01">>)>>)
    [] f = "recommendedIPv4" ->
         Arr(<<Obj(<<Member(<<"rank">>, Lit("1")),
                     Member(<<"value">>, Arr(<<Str(Ipv4)>>))>>)>>)
    [] f = "recommendedCNAME" ->
         Arr(<<Obj(<<Member(<<"rank">>, Lit("1")),
                     Member(<<"value">>, Str(CnameTarget))>>)>>)
    [] f = "ipStatus" -> Null
    [] f = "misconfigured" -> Lit("false")

FieldSet == {ConfigFields[i] : i \in 1..Len(ConfigFields)}

\* A domain-config document reporting the fields of S, and one field the
\* client does not know.
RECURSIVE ConfigMembers(_, _)
ConfigMembers(S, i) ==
  IF i > Len(ConfigFields) THEN <<Member(<<"verified">>, Lit("true"))>>
  ELSE (IF ConfigFields[i] \in S
        THEN <<Member(<<ConfigFields[i]>>, FieldSample(ConfigFields[i]))>>
        ELSE <<>>) \o ConfigMembers(S, i + 1)

ConfigDoc(S) == Obj(ConfigMembers(S, 1))

\* How many of the eleven fields a domain-config document reports, short of
\* all of them.
MaxPresent == 2

ConfigSubsets ==
  {S \in SUBSET FieldSet : Cardinality(S) <= MaxPresent \/ S = FieldSet}

ConfigBodies == {JSONstringify(ConfigDoc(S)) : S \in ConfigSubsets}

RawEmpty == <<>>
\* Plain text, not JSON.
RawPlain == <<"OK">>
RawText == <<"Bad", SPACE, "Gateway">>
RawTruncated == <<"{", QUOTE, "name", QUOTE, ":">>
RawNull == <<"null">>
RawEmptyObject == <<"{", "}">>
\* {"name":"staging.example.com","verified":false}
RawEcho ==
  <<"{", QUOTE, "name", QUOTE, ":", QUOTE, "staging", ".", "example", ".", "com",
    QUOTE, ",", QUOTE, "verified", QUOTE, ":", "false", "}">>
\* {"name":42}
RawNameNumber == <<"{", QUOTE, "name", QUOTE, ":", "42", "}">>
\* { "error": { "code": "domain_already_in_use" } }
RawInUse ==
  <<"{", SPACE, QUOTE, "error", QUOTE, ":", SPACE, "{", SPACE, QUOTE, "code",
    QUOTE, ":", SPACE, QUOTE, "domain_already_in_use", QUOTE, SPACE, "}",
    SPACE, "}">>
\* {"errors":[{"code":"domain_already_in_use"}]}
RawInUseNested ==
  <<"{", QUOTE, "errors", QUOTE, ":", "[", "{", QUOTE, "code", QUOTE, ":",
    QUOTE, "domain_already_in_use", QUOTE, "}", "]", "}">>
\* {"error":{"code":"not_found"}}
RawNotFound ==
  <<"{", QUOTE, "error", QUOTE, ":", "{", QUOTE, "code", QUOTE, ":", QUOTE,
    "not_found", QUOTE, "}", "}">>
\* {"error":{"code":"forbidden","message":"\"code\":\"domain_already_in_use\""}}
RawQuotedMarker ==
  <<"{", QUOTE, "error", QUOTE, ":", "{", QUOTE, "code", QUOTE, ":", QUOTE,
    "forbidden", QUOTE, ",", QUOTE, "message", QUOTE, ":", QUOTE,
    BSLASH, QUOTE, "code", BSLASH, QUOTE, ":", BSLASH, QUOTE,
    "domain_already_in_use", BSLASH, QUOTE, QUOTE, "}", "}">>
\* {"x\"code":"domain_already_in_use"}: the key is x"code, not code
RawKeyEndsInCode ==
  <<"{", QUOTE, "x", BSLASH, QUOTE, "code", QUOTE, ":", QUOTE,
    "domain_already_in_use", QUOTE, "}">>

RawBodies ==
  {RawEmpty, RawPlain, RawText, RawTruncated, RawNull, RawEmptyObject, RawEcho,
   RawNameNumber, RawInUse, RawInUseNested, RawNotFound, RawQuotedMarker,
   RawKeyEndsInCode} \cup ConfigBodies

\* ------------------------------------------------------------ the steps
IdleCall ==
  [pc |-> "idle", op |-> "none", arg |-> <<>>, fullDomain |-> <<>>,
   allowStatuses |-> {}, status |-> 0, outcome |-> NoOutcome]

NoTraffic ==
  [requests |-> <<>>, fetched |-> "pending", status |-> 0,
   body |-> "pending", raw |-> <<>>]

\* The caller invokes op(arg): the operation runs to its return or to the
\* fetch call of request, where it awaits.
Invoke(c, op, arg) ==
  /\ calls[c].pc = "idle"
  /\ LET st == Start(op, arg) IN
     IF st.ret
     THEN /\ calls' = [calls EXCEPT ![c] =
                         [IdleCall EXCEPT !.pc = "done", !.op = op, !.arg = arg,
                                          !.outcome = ReturnOf(st.result)]]
          /\ UNCHANGED net
     ELSE /\ calls' = [calls EXCEPT ![c] =
                         [IdleCall EXCEPT !.pc = "fetch", !.op = op, !.arg = arg,
                                          !.fullDomain = st.fullDomain,
                                          !.allowStatuses = AllowStatuses(st.options)]]
          /\ net' = [net EXCEPT ![c].requests =
                       Append(@, FetchCall(st.path, st.options))]
  /\ UNCHANGED config

\* await fetch(...) rejects: the catch block of the operation runs.
FetchRejects(c) ==
  /\ calls[c].pc = "fetch"
  /\ calls' = [calls EXCEPT ![c].pc = "done",
                            ![c].outcome = Settle(calls[c].op, calls[c].arg,
                                                  calls[c].fullDomain,
                                                  Thrown(FetchFailed))]
  /\ net' = [net EXCEPT ![c].fetched = "rejected"]
  /\ UNCHANGED config

FetchResolvesShared(c, status) ==
  /\ calls[c].pc = "fetch"
  /\ calls' = [d \in DOMAIN calls |->
                 IF d = c THEN [calls[d] EXCEPT !.pc = "text", !.status = status]
                 ELSE IF calls[d].pc = "text"
                      THEN [calls[d] EXCEPT !.status = status]
                      ELSE calls[d]]
  /\ net' = [net EXCEPT ![c].fetched = "resolved", ![c].status = status]
  /\ UNCHANGED config

\* await fetch(...) resolves with a response of this status; the operation
\* awaits response.text().
FetchResolves(c, status) ==
  /\ calls[c].pc = "fetch"
  /\ calls' = [calls EXCEPT ![c].pc = "text", ![c].status = status]
  /\ net' = [net EXCEPT ![c].fetched = "resolved", ![c].status = status]
  /\ UNCHANGED config

\* await response.text() rejects.
BodyFails(c) ==
  /\ calls[c].pc = "text"
  /\ calls' = [calls EXCEPT ![c].pc = "done",
                            ![c].outcome = Settle(calls[c].op, calls[c].arg,
                                                  calls[c].fullDomain,
                                                  Thrown(BodyFailed))]
  /\ net' = [net EXCEPT ![c].body = "rejected"]
  /\ UNCHANGED config

\* await response.text() resolves: the rest of request and of the operation.
BodyArrives(c, raw) ==
  /\ calls[c].pc = "text"
  /\ calls' = [calls EXCEPT ![c].pc = "done",
                            ![c].outcome =
                               Settle(calls[c].op, calls[c].arg, calls[c].fullDomain,
                                      requestFinish(calls[c].status, raw,
                                                    calls[c].allowStatuses))]
  /\ net' = [net EXCEPT ![c].body = "delivered", ![c].raw = raw]
  /\ UNCHANGED config

\* The caller has taken the result; the next invocation starts afresh.
Return(c) ==
  /\ calls[c].pc = "done"
  /\ calls' = [calls EXCEPT ![c] = IdleCall]
  /\ net' = [net EXCEPT ![c] = NoTraffic]
  /\ UNCHANGED config

\* How many invocations may be in flight together.
MaxCalls == 2

InitWith(cfgs, ids) ==
  /\ config \in cfgs
  /\ calls = [c \in ids |-> IdleCall]
  /\ net = [c \in ids |-> NoTraffic]

\* One invocation at a time, every configuration, every answer.
Init == InitWith(Configs, {1})

Next ==
  \/ \E c \in DOMAIN calls, op \in Ops, arg \in Args : Invoke(c, op, arg)
  \/ \E c \in DOMAIN calls : FetchRejects(c)
  \/ \E c \in DOMAIN calls, status \in Statuses : FetchResolves(c, status)
  \/ \E c \in DOMAIN calls : BodyFails(c)
  \/ \E c \in DOMAIN calls, raw \in RawBodies : BodyArrives(c, raw)
  \/ \E c \in DOMAIN calls : Return(c)

Spec == Init /\ [][Next]_vars

\* Up to MaxCalls invocations in flight on one client with a complete
\* configuration.
ConcStatuses == {200, 404}
ConcBodies == {RawEcho, RawPlain}

InitConc == InitWith({CompleteConfig}, 1..MaxCalls)

NextConc ==
  \/ \E c \in DOMAIN calls, op \in Ops, arg \in Args : Invoke(c, op, arg)
  \/ \E c \in DOMAIN calls : FetchRejects(c)
  \/ \E c \in DOMAIN calls, status \in ConcStatuses : FetchResolves(c, status)
  \/ \E c \in DOMAIN calls : BodyFails(c)
  \/ \E c \in DOMAIN calls, raw \in ConcBodies : BodyArrives(c, raw)
  \/ \E c \in DOMAIN calls : Return(c)

SpecConc == InitConc /\ [][NextConc]_vars

(***************************************************************************)
(* The claims.  They are stated over what the caller passed (calls[c].op,  *)
(* calls[c].arg), what the network saw and answered (net[c]) and what the  *)
(* operation's promise settled to (calls[c].outcome).                      *)
(***************************************************************************)
Done(c) == calls[c].pc = "done"
Started(c) == calls[c].pc # "idle"
HasResult(c) == calls[c].outcome.kind = "return"
Res(c) == calls[c].outcome.result
Failed(c) == HasResult(c) /\ Res(c).success = FALSE
Succeeded(c) == HasResult(c) /\ Res(c).success = TRUE

\* The interface table of the specification: required fields, in check order.
RequiredFields(op) ==
  IF op \in {"addSubdomain", "removeSubdomain"}
  THEN <<"baseDomain", "projectId", "bearerToken">>
  ELSE IF op \in {"addCustomDomain", "removeCustomDomain"}
       THEN <<"projectId", "bearerToken">>
       ELSE <<"bearerToken">>
FieldEmpty(f) == config[f] = <<>>
MissingOf(op) == SelectSeq(RequiredFields(op), FieldEmpty)
ConfigValid(op) == MissingOf(op) = <<>>

IsAdd(op) == op \in {"addSubdomain", "addCustomDomain"}
\* The name the operation builds itself.
LocalDomain(c) ==
  IF calls[c].op \in {"addSubdomain", "removeSubdomain"}
  THEN calls[c].arg \o <<".">> \o config.baseDomain
  ELSE calls[c].arg

Delivered(c) == net[c].body = "delivered"
Is2xx(status) == status >= 200 /\ status < 300
Allowed(op, status) == op = "removeCustomDomain" /\ status = 404
Malformed(c) == Delivered(c) /\ net[c].raw # <<>> /\ ~JSONparse(net[c].raw).ok
Readable(c) == Delivered(c) /\ (net[c].raw = <<>> \/ JSONparse(net[c].raw).ok)
\* The response body as a value; the empty body is the empty mapping.
Doc(c) == IF net[c].raw = <<>> THEN EmptyObject ELSE JSONparse(net[c].raw).val
HasKey(doc, word) == doc.t = "obj" /\ \E i \in 1..Len(doc.v) : doc.v[i].k = <<word>>
ValueAt(doc, word) == doc.v[CHOOSE i \in 1..Len(doc.v) : doc.v[i].k = <<word>>].val

ApiErrorText(status, payload) ==
  <<"Vercel", SPACE, "API", SPACE, "error", ":", SPACE, ToString(status),
    SPACE, "-", SPACE>> \o payload
IncompleteText(names) ==
  <<"Vercel", SPACE, "configuration", SPACE, "is", SPACE, "incomplete", ":",
    SPACE, "missing", SPACE>> \o names
FriendlyText ==
  <<"This", SPACE, "domain", SPACE, "is", SPACE, "already", SPACE, "in", SPACE,
    "use", SPACE, "by", SPACE, "another", SPACE, "Vercel", SPACE, "project">>

\* C1: an operation invoked with one of its required fields empty returns
\* success: false with 'Vercel configuration is incomplete: missing ' and
\* exactly its missing required fields, comma-separated in check order, and
\* issues no network call.
C1_MissingConfig ==
  \A c \in DOMAIN calls :
    (Started(c) /\ ~ConfigValid(calls[c].op)) =>
      /\ Done(c)
      /\ HasResult(c)
      /\ DOMAIN Res(c) = {"success", "error"}
      /\ Res(c).success = FALSE
      /\ Res(c).error = IncompleteText(Join(MissingOf(calls[c].op), <<",", SPACE>>))
      /\ net[c].requests = <<>>
      /\ net[c].fetched = "pending"

C1_Witness ==
  \E c \in DOMAIN calls :
    /\ Done(c) /\ calls[c].op = "addCustomDomain"
    /\ MissingOf("addCustomDomain") = <<"projectId", "bearerToken">>
    /\ config.baseDomain = <<>>
    /\ Failed(c)

\* C2: no operation ever throws: every settled operation has returned a
\* result; a rejected fetch, a broken body and a malformed body are returned
\* as failures; every failure result has an error and no success result has.
C2_NoEscape ==
  \A c \in DOMAIN calls :
    /\ calls[c].outcome.kind # "throw"
    /\ Done(c) =>
         /\ HasResult(c)
         /\ "success" \in DOMAIN Res(c)
         /\ Res(c).success = FALSE => "error" \in DOMAIN Res(c)
         /\ Res(c).success = TRUE => "error" \notin DOMAIN Res(c)
         /\ (net[c].fetched = "rejected" \/ net[c].body = "rejected" \/ Malformed(c))
              => Res(c).success = FALSE

C2_Witness ==
  \E c \in DOMAIN calls :
    /\ Done(c) /\ calls[c].op = "getDomainConfig"
    /\ Delivered(c) /\ net[c].raw = RawNull /\ net[c].status = 200
    /\ Failed(c) /\ "error" \in DOMAIN Res(c)

\* C3 as stated: removeCustomDomain with projectId and bearerToken present
\* returns exactly {success: true} for every response of status 404,
\* whatever its body.
C3_Original ==
  \A c \in DOMAIN calls :
    (Done(c) /\ calls[c].op = "removeCustomDomain" /\ ConfigValid(calls[c].op)
       /\ Delivered(c) /\ net[c].status = 404) =>
      (HasResult(c) /\ Res(c) = [success |-> TRUE])

\* C3 as amended: for every response of status 404 whose body is empty or
\* valid JSON the result is exactly {success: true}; a 404 whose non-empty
\* body is not valid JSON is returned as a failure carrying the parse error.
C3_Idempotent404 ==
  \A c \in DOMAIN calls :
    (Done(c) /\ calls[c].op = "removeCustomDomain" /\ ConfigValid(calls[c].op)
       /\ Delivered(c) /\ net[c].status = 404) =>
      /\ HasResult(c)
      /\ Readable(c) => Res(c) = [success |-> TRUE]
      /\ Malformed(c) => Res(c) = [success |-> FALSE, error |-> SyntaxError.message]

C3_Witness ==
  \E c \in DOMAIN calls :
    /\ Done(c) /\ calls[c].op = "removeCustomDomain"
    /\ Delivered(c) /\ net[c].status = 404 /\ net[c].raw = RawNotFound
    /\ Succeeded(c)

\* The payload a transport error carries: the response body as compact JSON,
\* the body itself when it is no JSON.
Payload(c) ==
  IF Malformed(c) THEN net[c].raw ELSE JSONstringify(Doc(c))
Rejected(c) ==
  Delivered(c) /\ ~Is2xx(net[c].status) /\ ~Allowed(calls[c].op, net[c].status)

RECURSIVE HasInUseCode(_)
HasInUseCode(x) ==
  IF x.t = "obj"
  THEN \E i \in 1..Len(x.v) :
         \/ x.v[i].k = <<"code">> /\ x.v[i].val = Str(<<"domain_already_in_use">>)
         \/ HasInUseCode(x.v[i].val)
  ELSE IF x.t = "arr" THEN \E i \in 1..Len(x.v) : HasInUseCode(x.v[i])
  ELSE FALSE

\* The message of the failure the request ended with.
FailureMessage(c) ==
  IF net[c].fetched = "rejected" THEN FetchFailed.message
  ELSE IF net[c].body = "rejected" THEN BodyFailed.message
  ELSE IF Malformed(c) THEN SyntaxError.message
  ELSE IF Rejected(c) THEN ApiErrorText(net[c].status, JSONstringify(Doc(c)))
  ELSE NullPropertyError.message

\* C5: a failed addCustomDomain returns {success: false, domain, error} with
\* the caller's domain; error is 'This domain is already in use by another
\* Vercel project' when the response's error code is domain_already_in_use,
\* wherever it sits, and the failure's own message otherwise; no other
\* operation substitutes.
C5_DomainConflict ==
  \A c \in DOMAIN calls :
    (Done(c) /\ net[c].requests # <<>> /\ Failed(c)) =>
      IF calls[c].op = "addCustomDomain"
      THEN /\ DOMAIN Res(c) = {"success", "domain", "error"}
           /\ Res(c).domain = calls[c].arg
           /\ Res(c).error =
                IF Rejected(c) /\ Readable(c) /\ HasInUseCode(Doc(c))
                THEN FriendlyText ELSE FailureMessage(c)
      ELSE Res(c).error # FriendlyText

C5_Witness ==
  \E c \in DOMAIN calls :
    /\ Done(c) /\ calls[c].op = "addCustomDomain"
    /\ Delivered(c) /\ net[c].status = 400 /\ net[c].raw = RawKeyEndsInCode
    /\ ~HasInUseCode(Doc(c))
    /\ Failed(c) /\ Res(c).error = FriendlyText

\* The recognized fields the response reports.
Reported(doc) == {f \in FieldSet : HasKey(doc, f)}

C7_Original ==
  \A c \in DOMAIN calls :
    (Done(c) /\ IsAdd(calls[c].op) /\ net[c].requests # <<>>) =>
      /\ HasResult(c)
      /\ IF Delivered(c) /\ Is2xx(net[c].status)
         THEN /\ DOMAIN Res(c) = {"success", "domain"}
              /\ Res(c).success = TRUE
              /\ IF Readable(c) /\ HasKey(Doc(c), "name")
                 THEN Str(Res(c).domain) = ValueAt(Doc(c), "name")
                 ELSE Res(c).domain = LocalDomain(c)
         ELSE /\ DOMAIN Res(c) = {"success", "domain", "error"}
              /\ Res(c).success = FALSE
              /\ Res(c).domain = LocalDomain(c)

\* C7 as amended: a 2xx response whose body is empty or valid JSON other than
\* null gives {success: true, domain} with the response's name if that is a
\* string, else the locally constructed name; every other end of the request
\* (a rejection, a status outside 2xx, a 2xx response whose body is not valid
\* JSON or is null) gives {success: false, domain: <locally constructed
\* name>, error}.  A domain is reported in every case.
C7_DomainReported ==
  \A c \in DOMAIN calls :
    (Done(c) /\ IsAdd(calls[c].op) /\ net[c].requests # <<>>) =>
      /\ HasResult(c)
      /\ IF Delivered(c) /\ Is2xx(net[c].status) /\ Readable(c) /\ Doc(c) # Null
         THEN /\ DOMAIN Res(c) = {"success", "domain"}
              /\ Res(c).success = TRUE
              /\ IF HasKey(Doc(c), "name") /\ ValueAt(Doc(c), "name").t = "str"
                 THEN Res(c).domain = ValueAt(Doc(c), "name").v
                 ELSE Res(c).domain = LocalDomain(c)
         ELSE /\ DOMAIN Res(c) = {"success", "domain", "error"}
              /\ Res(c).success = FALSE
              /\ Res(c).domain = LocalDomain(c)

C7_Witness ==
  \E c \in DOMAIN calls :
    /\ Done(c) /\ calls[c].op = "addSubdomain" /\ calls[c].arg = <<"staging">>
    /\ net[c].fetched = "rejected"
    /\ Res(c) = [success |-> FALSE,
                 domain |-> <<"staging", ".", "example", ".", "com">>,
                 error |-> FetchFailed.message]

\* C8: an empty response body is the empty mapping and never a parse failure
\* (on a 2xx status the operation succeeds, the add operations reporting the
\* locally constructed name; on a refused status the error carries {}), and a
\* non-empty body that is not valid JSON fails the call, whatever the status.
C8_EmptyAndMalformed ==
  \A c \in DOMAIN calls :
    (Done(c) /\ Delivered(c)) =>
      /\ HasResult(c)
      /\ (net[c].raw = <<>> /\ (Is2xx(net[c].status) \/ Allowed(calls[c].op, net[c].status))) =>
           /\ Res(c).success = TRUE
           /\ IsAdd(calls[c].op) => Res(c).domain = LocalDomain(c)
      /\ (net[c].raw = <<>> /\ Rejected(c)) =>
           /\ Res(c).success = FALSE
           /\ Res(c).error = ApiErrorText(net[c].status, <<"{", "}">>)
      /\ Malformed(c) =>
           /\ Res(c).success = FALSE
           /\ "error" \in DOMAIN Res(c)

C8_Witness ==
  \E c \in DOMAIN calls :
    /\ Done(c) /\ calls[c].op = "addSubdomain" /\ calls[c].arg = <<"staging">>
    /\ Delivered(c) /\ net[c].status = 200 /\ net[c].raw = <<>>
    /\ Res(c) = [success |-> TRUE,
                 domain |-> <<"staging", ".", "example", ".", "com">>]

\* The request of the interface table.
AuthHeader == "Authorization" :> (<<"Bearer", SPACE>> \o config.bearerToken)
JsonHeader == "Content-Type" :> <<"application", "/", "json">>
TableRequest(c) ==
  IF IsAdd(calls[c].op)
  THEN [url |-> config.baseUrl \o <<"/", "v10", "/", "projects", "/">>
                \o config.projectId \o <<"/", "domains">>,
        init |-> [method |-> <<"POST">>,
                  headers |-> AuthHeader @@ JsonHeader,
                  body |-> <<"{", QUOTE, "name", QUOTE, ":", QUOTE>>
                           \o LocalDomain(c) \o <<QUOTE, "}">>]]
  ELSE IF calls[c].op = "getDomainConfig"
  THEN [url |-> config.baseUrl \o <<"/", "v6", "/", "domains", "/">>
                \o calls[c].arg \o <<"/", "config">>,
        init |-> [method |-> <<"GET">>, headers |-> AuthHeader]]
  ELSE [url |-> config.baseUrl \o <<"/", "v9", "/", "projects", "/">>
                \o config.projectId \o <<"/", "domains", "/">> \o LocalDomain(c),
        init |-> [method |-> <<"DELETE">>, headers |-> AuthHeader]]

\* C9: from its invocation on, whatever the upstream answers, an operation
\* with valid config has issued exactly one request, the one of the interface
\* table: method, URL, Authorization: Bearer {bearerToken}, and the JSON body
\* {name} with a JSON Content-Type for the add operations only.
C9_OneRequest ==
  \A c \in DOMAIN calls :
    (Started(c) /\ ConfigValid(calls[c].op)) =>
      net[c].requests = <<TableRequest(c)>>

C9_Witness ==
  \E c \in DOMAIN calls :
    /\ Done(c) /\ calls[c].op = "removeSubdomain" /\ Failed(c)
    /\ Delivered(c) /\ net[c].status = 400
    /\ Len(net[c].requests) = 1
    /\ DOMAIN net[c].requests[1].init = {"method", "headers"}

\* The result of op(arg) run with no other invocation around it, against the
\* same upstream behaviour.
RunAlone(op, arg, traffic) ==
  LET st == Start(op, arg) IN
  IF st.ret THEN ReturnOf(st.result)
  ELSE IF traffic.fetched = "rejected"
       THEN Settle(op, arg, st.fullDomain, Thrown(FetchFailed))
  ELSE IF traffic.body = "rejected"
       THEN Settle(op, arg, st.fullDomain, Thrown(BodyFailed))
  ELSE Settle(op, arg, st.fullDomain,
              requestFinish(traffic.status, traffic.raw, AllowStatuses(st.options)))

Isolated ==
  \A c \in DOMAIN calls :
    Done(c) => calls[c].outcome = RunAlone(calls[c].op, calls[c].arg, net[c])

\* C10: under every interleaving of the steps of the invocations in flight,
\* each invocation settles to the result it gives when run alone with the
\* same argument and the same upstream behaviour, and no step changes the
\* client's configuration.
C10_NoInterference == []Isolated /\ [][config' = config]_vars

C10_Witness ==
  \E c, d \in DOMAIN calls :
    /\ c # d
    /\ calls[c].pc = "text" /\ calls[c].status = 200
    /\ Done(d) /\ Delivered(d) /\ net[d].status = 404
    /\ calls[c].op = "addSubdomain" /\ calls[d].op = "addSubdomain"
    /\ calls[c].arg # calls[d].arg

====
